---- MODULE Spec2Model ----
(***************************************************************************)
(* flash_call: the Flashduty alert push SDK (src/src/flash_call/__init__.py) *)
(*                                                                         *)
(* Two module globals (_integration_key, _user) written by set_key, and    *)
(* two push operations, push_alert (blocking) and push_alert_async         *)
(* (suspends once, at "await client.post"), each of which resolves the     *)
(* key, builds the JSON payload, issues one POST and decodes the answer.   *)
(*                                                                         *)
(* Python values: Optional[T] is a sequence of length at most one          *)
(* (None = <<>>, a present value v = <<v>>); a dict is a function from its *)
(* keys; a list is a sequence.  The program is single threaded             *)
(* (one thread, cooperative asyncio tasks): push_alert runs to completion  *)
(* in one step, push_alert_async in two steps around its suspension point. *)
(***************************************************************************)
EXTENDS Integers, Sequences, FiniteSets, TLC

VARIABLES
    _integration_key,   \* module global, Optional[str]
    _user,              \* module global, Optional[str]
    configured,         \* history: the arguments of the most recent set_key call
    ret,                \* what the last get_key / get_user call returned
    task,               \* the last push call of each task: its locals and outcome
    conn,               \* the request in flight on each AsyncClient's connection
    input               \* the event and reply a call scenario is run on

vars == <<_integration_key, _user, configured, ret, task, conn, input>>

\* ------------------------------------------------------------------ bounds

\* Number of asyncio tasks that call the push operations.
NTasks == 2

Tasks == 1..NTasks

\* ----------------------------------------------------------- Python values

None == <<>>

Some(v) == <<v>>

\* bool(x) of an Optional[str]: None and "" are falsy.
Truthy(o) == o # None /\ o[1] # ""

\* a or b
Or(a, b) == IF Truthy(a) THEN a ELSE b

BASE_URL == "https://api.flashcat.cloud/event/push/alert/standard"

EventStatus == {"Critical", "Warning", "Info", "Ok"}

\* ------------------------------------------------------------------ inputs

Keys == {"", "abc", "xyz"}

Users == {None, Some(""), Some("team-x")}

OptStrings == {None, Some(""), Some("k1")}

OptLabels == {None, Some(<<>>), Some("host" :> "h1")}

OptImages == {None, Some(<<>>), Some(<<("src" :> "http://i/1.png")>>)}

Overrides == {None, Some(""), Some("ov")}

\* The arguments of one push call.
Event(title, status, ak, desc, labels, images, override) ==
    [title_rule |-> title, event_status |-> status, alert_key |-> ak,
     description |-> desc, labels |-> labels, images |-> images,
     integration_key |-> override]

\* Every combination of present, present-but-empty and absent optional arguments.
AllEvents ==
    { Event("disk full", st, ak, d, l, i, o) :
        st \in EventStatus, ak \in OptStrings, d \in OptStrings, l \in OptLabels,
        i \in OptImages, o \in Overrides }

\* The events and keys of the concurrent program.
TaskEvents == { Event("disk full", "Warning", None, None, None, None, None) }

TaskKeys == {"abc", "xyz"}

\* The answers of the concurrent program: one per outcome of a call.
TaskShapes ==
    {[fault |-> TRUE, status |-> 0, json |-> FALSE],
     [fault |-> FALSE, status |-> 200, json |-> TRUE],
     [fault |-> FALSE, status |-> 200, json |-> FALSE],
     [fault |-> FALSE, status |-> 500, json |-> TRUE]}

FrameKeys == {"abc"}

FrameUsers == {None, Some("team-x")}

\* The states set_key can leave the two globals in (and the initial one).
Identities ==
    {[key |-> None, user |-> None, configured |-> None]} \cup
    {[key |-> Some(k), user |-> u, configured |-> Some([key |-> k, user |-> u])] :
        k \in Keys, u \in Users}

\* --------------------------------------------------------------- transport

Statuses == {200, 400, 500}

\* What the transport can answer: a connection failure, or a response with a
\* status and a body that is JSON text or not.
ReplyShapes ==
    {[fault |-> TRUE, status |-> 0, json |-> FALSE]} \cup
    [fault : {FALSE}, status : Statuses, json : BOOLEAN]

\* The alert key the server answers with: the caller's, or one it assigns.
AlertKeyFor(request) ==
    IF "alert_key" \in DOMAIN request.json THEN request.json.alert_key ELSE "generated"

\* The reply of shape sh with request id rid and alert key ak.
Reply(sh, rid, ak) ==
    [fault |-> sh.fault, status |-> sh.status, json |-> sh.json,
     doc |-> IF sh.fault \/ ~sh.json THEN None
             ELSE IF sh.status >= 400
                  THEN Some([request_id |-> rid,
                             error |-> [code |-> "InvalidParameter", message |-> "m"]])
                  ELSE Some([request_id |-> rid, data |-> [alert_key |-> ak]])]

\* The server's answer to what is on the wire: unique per sender.
ServerReply(wire, sh) == Reply(sh, wire.sender, AlertKeyFor(wire.request))

\* client.post(BASE_URL, params=..., json=..., headers=...)
Post(key, payload) ==
    [method |-> "POST", url |-> BASE_URL,
     params |-> [integration_key |-> key],
     json |-> payload,
     headers |-> ("Content-Type" :> "application/json")]

\* ------------------------------------------------------------ call records

Idle ==
    [pc |-> "idle", event |-> None, cfg |-> None, request |-> None, posts |-> 0,
     outcome |-> "", result |-> None]

Raised(e, exc) ==
    [pc |-> "done", event |-> Some(e), cfg |-> configured, request |-> None,
     posts |-> 0, outcome |-> exc, result |-> None]

\* ------------------------------------------------------------------ set_key

\* set_key as it would be if an omitted user kept the stored prefix.
set_key_keeping_user(key, user) ==
    /\ _integration_key' = Some(key)
    /\ _user' = IF user = None THEN _user ELSE user
    /\ configured' = Some([key |-> key, user |-> user])
    /\ UNCHANGED <<ret, task, conn, input>>

set_key(key, user) ==
    /\ _integration_key' = Some(key)
    /\ _user' = user
    /\ configured' = Some([key |-> key, user |-> user])
    /\ UNCHANGED <<ret, task, conn, input>>

get_key ==
    /\ ret' = _integration_key
    /\ UNCHANGED <<_integration_key, _user, configured, task, conn, input>>

get_user ==
    /\ ret' = _user
    /\ UNCHANGED <<_integration_key, _user, configured, task, conn, input>>

\* ---------------------------------------------------------------- push_alert

\* The key resolution with the operands swapped: the process-wide key first.
push_alert_key_global_first(e) == Or(_integration_key, e.integration_key)

\* key = integration_key or _integration_key
push_alert_key(e) == Or(e.integration_key, _integration_key)

\* if not key: raise ValueError(...)
push_alert_missing(key) == ~Truthy(key)

\* if _user is not None: title_rule = f"{_user} {title_rule}"
push_alert_title(e) ==
    IF _user # None THEN _user[1] \o " " \o e.title_rule ELSE e.title_rule

\* The payload built with truth tests ("if labels:") in place of "is not None".
push_alert_payload_truthy(e, title_rule) ==
    LET p0 == [title_rule |-> title_rule, event_status |-> e.event_status]
        p1 == IF Truthy(e.alert_key) THEN ("alert_key" :> e.alert_key[1]) @@ p0 ELSE p0
        p2 == IF Truthy(e.description)
              THEN ("description" :> e.description[1]) @@ p1 ELSE p1
        p3 == IF e.labels # None /\ e.labels[1] # <<>>
              THEN ("labels" :> e.labels[1]) @@ p2 ELSE p2
        p4 == IF e.images # None /\ e.images[1] # <<>>
              THEN ("images" :> e.images[1]) @@ p3 ELSE p3
    IN  p4

\* The payload dict: two required entries, then one entry per present argument.
push_alert_payload(e, title_rule) ==
    LET p0 == [title_rule |-> title_rule, event_status |-> e.event_status]
        p1 == IF e.alert_key # None THEN ("alert_key" :> e.alert_key[1]) @@ p0 ELSE p0
        p2 == IF e.description # None
              THEN ("description" :> e.description[1]) @@ p1 ELSE p1
        p3 == IF e.labels # None THEN ("labels" :> e.labels[1]) @@ p2 ELSE p2
        p4 == IF e.images # None THEN ("images" :> e.images[1]) @@ p3 ELSE p3
    IN  p4

\* The two last statements swapped: the body decoded before the status is checked.
push_alert_finish_decoding_first(reply) ==
    IF reply.fault THEN [outcome |-> "ConnectError", result |-> None]
    ELSE IF reply.doc = None THEN [outcome |-> "JSONDecodeError", result |-> None]
    ELSE IF reply.status >= 400 THEN [outcome |-> "HTTPStatusError", result |-> None]
    ELSE [outcome |-> "returned", result |-> reply.doc]

\* response.raise_for_status(); return response.json()
push_alert_finish(reply) ==
    IF reply.fault THEN [outcome |-> "ConnectError", result |-> None]
    ELSE IF reply.status >= 400 THEN [outcome |-> "HTTPStatusError", result |-> None]
    ELSE IF reply.doc = None THEN [outcome |-> "JSONDecodeError", result |-> None]
    ELSE [outcome |-> "returned", result |-> reply.doc]

\* One whole call of push_alert by task t; sh is how the transport answers.
\* The call blocks the thread: no other task runs before it returns.
push_alert(t, e, sh) ==
    /\ task[t].pc # "awaiting"
    /\ task' = [task EXCEPT ![t] =
         IF push_alert_missing(push_alert_key(e))
         THEN Raised(e, "ValueError")
         ELSE LET req == Post(push_alert_key(e)[1],
                              push_alert_payload(e, push_alert_title(e)))
                  reply == ServerReply([sender |-> t, request |-> req], sh)
                  fin == push_alert_finish(reply)
              IN  [pc |-> "done", event |-> Some(e), cfg |-> configured,
                   request |-> Some(req), posts |-> 1,
                   outcome |-> fin.outcome, result |-> fin.result]]
    /\ UNCHANGED <<_integration_key, _user, configured, ret, conn, input>>

\* ---------------------------------------------------------- push_alert_async

\* One module-level client shared by every call.
SharedClient(t) == 1

\* async with httpx.AsyncClient() as client: a fresh client for every call.
ClientOf(t) == t

push_alert_async_key(e) == Or(e.integration_key, _integration_key)

\* The key check as "if key is None": an empty key passes.
push_alert_async_missing_only_none(key) == key = None

push_alert_async_missing(key) == ~Truthy(key)

\* The prefix step left out of the async variant.
push_alert_async_title_unprefixed(e) == e.title_rule

push_alert_async_title(e) ==
    IF _user # None THEN _user[1] \o " " \o e.title_rule ELSE e.title_rule

push_alert_async_payload(e, title_rule) ==
    LET p0 == [title_rule |-> title_rule, event_status |-> e.event_status]
        p1 == IF e.alert_key # None THEN ("alert_key" :> e.alert_key[1]) @@ p0 ELSE p0
        p2 == IF e.description # None
              THEN ("description" :> e.description[1]) @@ p1 ELSE p1
        p3 == IF e.labels # None THEN ("labels" :> e.labels[1]) @@ p2 ELSE p2
        p4 == IF e.images # None THEN ("images" :> e.images[1]) @@ p3 ELSE p3
    IN  p4

push_alert_async_finish(reply) ==
    IF reply.fault THEN [outcome |-> "ConnectError", result |-> None]
    ELSE IF reply.status >= 400 THEN [outcome |-> "HTTPStatusError", result |-> None]
    ELSE IF reply.doc = None THEN [outcome |-> "JSONDecodeError", result |-> None]
    ELSE [outcome |-> "returned", result |-> reply.doc]

\* From the call to its suspension at "await client.post(...)": the key check,
\* the payload, and the request handed to the client.
push_alert_async_start(t, e) ==
    /\ task[t].pc # "awaiting"
    /\ IF push_alert_async_missing(push_alert_async_key(e))
       THEN /\ task' = [task EXCEPT ![t] = Raised(e, "ValueError")]
            /\ UNCHANGED conn
       ELSE LET req == Post(push_alert_async_key(e)[1],
                            push_alert_async_payload(e, push_alert_async_title(e)))
            IN  /\ task' = [task EXCEPT ![t] =
                      [pc |-> "awaiting", event |-> Some(e), cfg |-> configured,
                       request |-> Some(req), posts |-> 1,
                       outcome |-> "", result |-> None]]
                /\ conn' = [conn EXCEPT ![ClientOf(t)] =
                      Some([sender |-> t, request |-> req])]
    /\ UNCHANGED <<_integration_key, _user, configured, ret, input>>

\* A resume that sends the request once more after a failed exchange.
push_alert_async_resume_retrying(t, sh) ==
    /\ task[t].pc = "awaiting"
    /\ conn[ClientOf(t)] # None
    /\ LET reply == ServerReply(conn[ClientOf(t)][1], sh)
           fin == push_alert_async_finish(reply)
       IN  IF fin.outcome \in {"ConnectError", "HTTPStatusError"} /\ task[t].posts < 2
           THEN /\ task' = [task EXCEPT ![t] = [@ EXCEPT !.posts = @ + 1]]
                /\ UNCHANGED conn
           ELSE /\ task' = [task EXCEPT ![t] =
                      [@ EXCEPT !.pc = "done", !.outcome = fin.outcome,
                                !.result = fin.result]]
                /\ conn' = [conn EXCEPT ![ClientOf(t)] = None]
    /\ UNCHANGED <<_integration_key, _user, configured, ret, input>>

\* A resume of a call that reads the globals and builds its request only after
\* the suspension point.
push_alert_async_resume_reading_late(t, sh) ==
    /\ task[t].pc = "awaiting"
    /\ conn[ClientOf(t)] # None
    /\ LET e == task[t].event[1]
           req == Post(push_alert_async_key(e)[1],
                       push_alert_async_payload(e, push_alert_async_title(e)))
           reply == ServerReply([sender |-> t, request |-> req], sh)
           fin == push_alert_async_finish(reply)
       IN  task' = [task EXCEPT ![t] =
               [@ EXCEPT !.pc = "done", !.request = Some(req),
                         !.outcome = fin.outcome, !.result = fin.result]]
    /\ conn' = [conn EXCEPT ![ClientOf(t)] = None]
    /\ UNCHANGED <<_integration_key, _user, configured, ret, input>>

\* The task resumes with what arrived on its client's connection.
push_alert_async_resume(t, sh) ==
    /\ task[t].pc = "awaiting"
    /\ conn[ClientOf(t)] # None
    /\ LET reply == ServerReply(conn[ClientOf(t)][1], sh)
           fin == push_alert_async_finish(reply)
       IN  task' = [task EXCEPT ![t] =
               [@ EXCEPT !.pc = "done", !.outcome = fin.outcome, !.result = fin.result]]
    /\ conn' = [conn EXCEPT ![ClientOf(t)] = None]
    /\ UNCHANGED <<_integration_key, _user, configured, ret, input>>

\* A cancellation whose cleanup resets the stored prefix.
Cancel_resetting_user(t) ==
    /\ task[t].pc = "awaiting"
    /\ task' = [task EXCEPT ![t] = [@ EXCEPT !.pc = "done", !.outcome = "CancelledError"]]
    /\ conn' = [conn EXCEPT ![ClientOf(t)] = None]
    /\ _user' = None
    /\ UNCHANGED <<_integration_key, configured, ret, input>>

\* The scheduler cancels the task at its suspension point: CancelledError is
\* raised at the await and the client is closed.
Cancel(t) ==
    /\ task[t].pc = "awaiting"
    /\ task' = [task EXCEPT ![t] = [@ EXCEPT !.pc = "done", !.outcome = "CancelledError"]]
    /\ conn' = [conn EXCEPT ![ClientOf(t)] = None]
    /\ UNCHANGED <<_integration_key, _user, configured, ret, input>>

\* ------------------------------------------------------------ specifications

Init ==
    /\ _integration_key = None
    /\ _user = None
    /\ configured = None
    /\ ret = None
    /\ task = [t \in Tasks |-> Idle]
    /\ conn = [c \in Tasks |-> None]
    /\ input = None

\* The concurrent program: configuration calls, blocking pushes and the asyncio
\* tasks' pushes, interleaved at the tasks' suspension points.
Next ==
    \/ \E k \in TaskKeys, u \in Users : set_key(k, u)
    \/ \E t \in Tasks, e \in TaskEvents, sh \in TaskShapes : push_alert(t, e, sh)
    \/ \E t \in Tasks, e \in TaskEvents : push_alert_async_start(t, e)
    \/ \E t \in Tasks, sh \in TaskShapes : push_alert_async_resume(t, sh)
    \/ \E t \in Tasks : Cancel(t)

Spec == Init /\ [][Next]_vars

\* One call scenario: from any identity state, task Blocking calls push_alert and
\* task Suspending calls push_alert_async, once each, on the same event, and the
\* transport answers both the same way.
Blocking == CHOOSE t \in Tasks : TRUE

Suspending == CHOOSE t \in Tasks : t # Blocking

InitCall ==
    \E id \in Identities, e \in AllEvents, sh \in ReplyShapes :
        /\ _integration_key = id.key
        /\ _user = id.user
        /\ configured = id.configured
        /\ ret = None
            /\ task = [t \in Tasks |-> Idle]
        /\ conn = [c \in Tasks |-> None]
        /\ input = Some([event |-> e, shape |-> sh])

NextCall ==
    \/ task[Blocking].pc = "idle" /\ push_alert(Blocking, input[1].event, input[1].shape)
    \/ task[Suspending].pc = "idle" /\ push_alert_async_start(Suspending, input[1].event)
    \/ push_alert_async_resume(Suspending, input[1].shape)

SpecCall == InitCall /\ [][NextCall]_vars

\* The identity store and everything that runs beside it: configuration calls,
\* the two getters, pushes with every outcome, and cancellation in flight.
NextFrame ==
    \/ \E k \in FrameKeys, u \in FrameUsers : set_key(k, u)
    \/ get_key
    \/ get_user
    \/ \E t \in Tasks, e \in TaskEvents, sh \in ReplyShapes : push_alert(t, e, sh)
    \/ \E t \in Tasks, e \in TaskEvents : push_alert_async_start(t, e)
    \/ \E t \in Tasks, sh \in ReplyShapes : push_alert_async_resume(t, sh)
    \/ \E t \in Tasks : Cancel(t)

SpecFrame == Init /\ [][NextFrame]_vars


\* ------------------------------------------------------------------- claims

\* The event and the answer of the call scenario.
TheEvent == input[1].event

TheShape == input[1].shape

\* Neither the override nor the process-wide key is a non-empty string.
NoEffectiveKey == ~Truthy(TheEvent.integration_key) /\ ~Truthy(_integration_key)

\* C1: a push call that has no non-empty effective key (override absent or empty,
\* process-wide key unset or empty) ends in ValueError, has issued no POST and has
\* put nothing on the wire; and whatever was posted carried a non-empty key.
C1_NoKeyNoRequest ==
    \A t \in Tasks :
        task[t].pc # "idle" =>
            /\ NoEffectiveKey =>
                 /\ task[t].outcome = "ValueError"
                 /\ task[t].posts = 0
                 /\ task[t].request = None
                 /\ conn[ClientOf(t)] = None
            /\ task[t].request # None =>
                 task[t].request[1].params.integration_key # ""

C1_Witness ==
    /\ _integration_key = Some("")
    /\ TheEvent.integration_key = None
    /\ task[Blocking].outcome = "ValueError"
    /\ task[Suspending].outcome = "ValueError"

\* C2 as stated: whenever an override is passed (any string, the empty one too),
\* the integration_key sent is exactly the override.
C2_OverrideVerbatim ==
    \A t \in Tasks :
        (task[t].request # None /\ TheEvent.integration_key # None) =>
            task[t].request[1].params.integration_key = TheEvent.integration_key[1]

\* C2 amended: a non-empty override is sent verbatim whatever the process-wide key
\* is; when the override is absent or the empty string, a request that is sent
\* carries the process-wide key.
C2_NonEmptyOverrideVerbatim ==
    \A t \in Tasks :
        task[t].pc # "idle" =>
            /\ Truthy(TheEvent.integration_key) =>
                 /\ task[t].request # None
                 /\ task[t].request[1].params.integration_key
                      = TheEvent.integration_key[1]
            /\ (~Truthy(TheEvent.integration_key) /\ task[t].request # None) =>
                 Some(task[t].request[1].params.integration_key) = _integration_key

C2_Witness ==
    /\ _integration_key = Some("abc")
    /\ TheEvent.integration_key = Some("ov")
    /\ task[Blocking].request # None
    /\ task[Blocking].request[1].params.integration_key = "ov"
    /\ task[Suspending].request # None
    /\ task[Suspending].request[1].params.integration_key = "ov"

\* The title the claim expects from the prefix of a set_key call.
Prefixed(user, title) == IF user = None THEN title ELSE user[1] \o " " \o title

\* C3: the title_rule of every payload sent is decided by the most recent set_key
\* call before the push: prefix, one space, title when it gave a user (the empty
\* string included), the title unchanged when it gave none or was never called.
C3_TitleFromLastSetKey ==
    \A t \in Tasks :
        task[t].request # None =>
            task[t].request[1].json.title_rule
              = Prefixed(IF task[t].cfg = None THEN None ELSE task[t].cfg[1].user,
                         task[t].event[1].title_rule)

C3_Witness ==
    \E t, u \in Tasks :
        /\ task[t].request # None
        /\ task[t].request[1].json.title_rule = " disk full"
        /\ task[u].request # None
        /\ task[u].cfg # None
        /\ task[u].cfg[1].user = None
        /\ task[u].request[1].json.title_rule = "disk full"
        /\ task[u].pc = "awaiting"
        /\ task[t].pc = "done"

OptionalFields == {"alert_key", "description", "labels", "images"}

\* C4: the payload has title_rule and event_status, and one entry per optional
\* argument that is not None (empty values included), holding that argument.
C4_PayloadFields ==
    \A t \in Tasks :
        task[t].request # None =>
            LET p == task[t].request[1].json IN
            /\ DOMAIN p = {"title_rule", "event_status"}
                            \cup {k \in OptionalFields : TheEvent[k] # None}
            /\ p.event_status = TheEvent.event_status
            /\ \A k \in OptionalFields : TheEvent[k] # None => p[k] = TheEvent[k][1]

C4_Witness ==
    /\ TheEvent.alert_key = Some("")
    /\ TheEvent.description = None
    /\ TheEvent.labels = Some(<<>>)
    /\ TheEvent.images = Some(<<>>)
    /\ task[Blocking].request # None
    /\ task[Suspending].request # None
    /\ DOMAIN task[Suspending].request[1].json
         = {"title_rule", "event_status", "alert_key", "labels", "images"}

\* C5: a call answered with a status >= 400 ends in HTTPStatusError and returns
\* nothing, also when the body is not JSON; a mapping is returned only for an
\* answer below 400, and it is that answer's decoded body.
C5_ErrorStatusRaises ==
    \A t \in Tasks :
        (task[t].pc = "done" /\ task[t].request # None) =>
            /\ (~TheShape.fault /\ TheShape.status >= 400) =>
                 /\ task[t].outcome = "HTTPStatusError"
                 /\ task[t].result = None
            /\ task[t].result # None =>
                 /\ task[t].outcome = "returned"
                 /\ ~TheShape.fault
                 /\ TheShape.status < 400
                 /\ TheShape.json

C5_Witness ==
    /\ TheShape.status = 500
    /\ ~TheShape.json
    /\ task[Blocking].outcome = "HTTPStatusError"
    /\ task[Suspending].outcome = "HTTPStatusError"

\* C6: a call that returns a mapping returns the answer to its own request, and
\* while a call is suspended its own request is what its connection carries.
C6_OwnResponse ==
    \A t \in Tasks :
        /\ task[t].outcome = "returned" =>
             /\ task[t].result[1].request_id = t
             /\ task[t].result[1].data.alert_key = AlertKeyFor(task[t].request[1])
        /\ task[t].pc = "awaiting" =>
             conn[ClientOf(t)] = Some([sender |-> t, request |-> task[t].request[1]])

C6_Witness ==
    \E t, u \in Tasks :
        /\ t < u
        /\ task[t].pc = "awaiting"
        /\ task[u].outcome = "returned"
        /\ task[u].cfg # task[t].cfg

\* C7: every step that changes _integration_key or _user is a set_key step.
C7_OnlySetKeyWrites ==
    [][ \/ UNCHANGED <<_integration_key, _user>>
        \/ \E k \in FrameKeys, u \in FrameUsers : set_key(k, u) ]_vars

C7_Witness ==
    \E t, u \in Tasks :
        /\ task[t].outcome = "CancelledError"
        /\ task[u].outcome = "HTTPStatusError"
        /\ _integration_key = Some("abc")
        /\ _user = Some("team-x")
        /\ ret = Some("team-x")

\* A returned mapping without the id the transport stamps on each exchange.
Body(result) ==
    IF result = None THEN None
    ELSE Some([k \in DOMAIN result[1] \ {"request_id"} |-> result[1][k]])

\* C8: called on the same event from the same identity state and answered the
\* same way, push_alert and push_alert_async send the same request and end the
\* same way, with the same mapping.
C8_SameRequestSameOutcome ==
    (task[Blocking].pc = "done" /\ task[Suspending].pc # "idle") =>
        /\ task[Suspending].request = task[Blocking].request
        /\ task[Suspending].posts = task[Blocking].posts
        /\ task[Suspending].pc = "done" =>
             /\ task[Suspending].outcome = task[Blocking].outcome
             /\ Body(task[Suspending].result) = Body(task[Blocking].result)

C8_Witness ==
    /\ task[Blocking].outcome = "returned"
    /\ task[Suspending].outcome = "returned"
    /\ _user = Some("team-x")
    /\ TheEvent.labels = Some("host" :> "h1")

\* C9: a call issues one POST when it has an effective key and none otherwise,
\* never more; a call answered with a failure is over, with that failure and
\* with nothing of it left in flight.
C9_AtMostOnePost ==
    \A t \in Tasks :
        /\ task[t].posts <= 1
        /\ task[t].pc # "idle" => task[t].posts = IF NoEffectiveKey THEN 0 ELSE 1
        /\ (task[t].pc = "done" /\ task[t].posts > 0) =>
             /\ conn[ClientOf(t)] = None
             /\ TheShape.fault => task[t].outcome = "ConnectError"
             /\ (~TheShape.fault /\ TheShape.status >= 400) =>
                  task[t].outcome = "HTTPStatusError"

C9_Witness ==
    /\ TheShape.fault
    /\ task[Blocking].outcome = "ConnectError"
    /\ task[Blocking].posts = 1
    /\ task[Suspending].outcome = "ConnectError"
    /\ task[Suspending].posts = 1

\* C10: the key and the prefix of a request come from one set_key call, the most
\* recent one when the call started, and stay so while the request is in flight
\* and after, whatever set_key calls other tasks make meanwhile.
C10_OneConfiguration ==
    \A t \in Tasks :
        task[t].request # None =>
            /\ task[t].cfg # None
            /\ task[t].request[1].params.integration_key = task[t].cfg[1].key
            /\ task[t].request[1].json.title_rule
                 = Prefixed(task[t].cfg[1].user, task[t].event[1].title_rule)
            /\ task[t].pc = "awaiting" =>
                 conn[ClientOf(t)][1].request = task[t].request[1]

C10_Witness ==
    \E t \in Tasks :
        /\ task[t].pc = "awaiting"
        /\ task[t].cfg = Some([key |-> "abc", user |-> Some("team-x")])
        /\ configured = Some([key |-> "xyz", user |-> None])
        /\ task[t].request[1].params.integration_key = "abc"
        /\ task[t].request[1].json.title_rule = "team-x disk full"

====
